---------------------------- MODULE Spec2Model ----------------------------
(***************************************************************************)
(* Model of the CSV upload pipeline of StockDataTask (router.js):          *)
(* validateCSVAndStoreCSV and the POST /upload handler.                    *)
(*                                                                         *)
(* Cell values are strings, modelled as tuples of one-character strings,   *)
(* so that moment's strict parsing, parseFloat and parseInt are computed   *)
(* character by character.  A header is <<lead, name, trail>>: the name    *)
(* surrounded by lead/trail blanks.                                        *)
(***************************************************************************)
EXTENDS Integers, Sequences, FiniteSets, TLC

\* ------------------------------------------------------------------ bounds
MaxRows == 2        \* data rows read from one file
MaxPairRows == 1    \* data rows of each of two interleaved invocations

\* --------------------------------------------------------------- utilities
Range(s) == {s[i] : i \in 1..Len(s)}

Digits == {"0", "1", "2", "3", "4", "5", "6", "7", "8", "9"}

DigitVal(c) ==
    CASE c = "0" -> 0 [] c = "1" -> 1 [] c = "2" -> 2 [] c = "3" -> 3
      [] c = "4" -> 4 [] c = "5" -> 5 [] c = "6" -> 6 [] c = "7" -> 7
      [] c = "8" -> 8 [] c = "9" -> 9

DigitChar(d) == <<"0", "1", "2", "3", "4", "5", "6", "7", "8", "9">>[d + 1]

\* The value of a run of digit characters.
RECURSIVE DigitsVal(_)
DigitsVal(s) ==
    IF s = <<>> THEN 0
    ELSE 10 * DigitsVal(SubSeq(s, 1, Len(s) - 1)) + DigitVal(s[Len(s)])

\* Length of the longest prefix of s made of digits.
RECURSIVE DigitRun(_)
DigitRun(s) ==
    IF s # <<>> /\ s[1] \in Digits THEN 1 + DigitRun(Tail(s)) ELSE 0

Drop(s, k) == SubSeq(s, k + 1, Len(s))
Take(s, k) == SubSeq(s, 1, k)

\* The JavaScript value undefined (a missing key of the row object).  Real
\* strings are tuples of single characters, so this tuple is none of them.
UNDEF == <<"undefined">>

\* String(value): undefined becomes the text "undefined".
JsString(v) ==
    IF v = UNDEF THEN <<"u", "n", "d", "e", "f", "i", "n", "e", "d">> ELSE v

RECURSIVE SkipBlanks(_)
SkipBlanks(s) == IF s # <<>> /\ s[1] = " " THEN SkipBlanks(Tail(s)) ELSE s

\* ------------------------------------------------------------ moment.js
\* moment(string, format, true): every token of the format must match at the
\* head of what is left of the string (YYYY four digits, MM and DD two), no
\* character may be left over, and month and day must be in range.
TokenLen(tok) == IF tok = "YYYY" THEN 4 ELSE IF tok \in {"MM", "DD"} THEN 2 ELSE 1

IsLeap(y) == (y % 4 = 0 /\ y % 100 # 0) \/ y % 400 = 0

DaysInMonth(y, m) ==
    IF m = 2 THEN (IF IsLeap(y) THEN 29 ELSE 28)
    ELSE IF m \in {4, 6, 9, 11} THEN 30 ELSE 31

InvalidMoment == [valid |-> FALSE, Y |-> 0, M |-> 0, D |-> 0]

RECURSIVE ParseTokens(_, _, _)
ParseTokens(s, fmt, acc) ==
    IF fmt = <<>> THEN
        IF s = <<>> THEN acc ELSE InvalidMoment
    ELSE
        LET tok == fmt[1]
            n   == TokenLen(tok)
            part == Take(s, n)
        IN  IF Len(s) < n THEN InvalidMoment
            ELSE IF tok \in {"YYYY", "MM", "DD"} THEN
                IF DigitRun(part) < n THEN InvalidMoment
                ELSE ParseTokens(Drop(s, n), Tail(fmt),
                        IF tok = "YYYY" THEN [acc EXCEPT !.Y = DigitsVal(part)]
                        ELSE IF tok = "MM" THEN [acc EXCEPT !.M = DigitsVal(part)]
                        ELSE [acc EXCEPT !.D = DigitsVal(part)])
            ELSE IF part = <<tok>> THEN ParseTokens(Drop(s, n), Tail(fmt), acc)
            ELSE InvalidMoment

MomentStrict(input, fmt) ==
    LET p == ParseTokens(JsString(input), fmt,
                         [valid |-> TRUE, Y |-> 0, M |-> 1, D |-> 1])
    IN  IF p.valid /\ p.M \in 1..12 /\ p.D >= 1 /\ p.D <= DaysInMonth(p.Y, p.M)
        THEN p ELSE InvalidMoment

\* moment(string, [formats], true): the first format that parses.
RECURSIVE MomentStrictAny(_, _)
MomentStrictAny(input, fmts) ==
    IF fmts = <<>> THEN InvalidMoment
    ELSE IF MomentStrict(input, fmts[1]).valid THEN MomentStrict(input, fmts[1])
    ELSE MomentStrictAny(input, Tail(fmts))

Pad2(n) == <<DigitChar(n \div 10), DigitChar(n % 10)>>
Pad4(n) == <<DigitChar(n \div 1000), DigitChar((n \div 100) % 10)>> \o Pad2(n % 100)

\* m.format('YYYY-MM-DD')
FormatISO(m) ==
    IF m.valid THEN Pad4(m.Y) \o <<"-">> \o Pad2(m.M) \o <<"-">> \o Pad2(m.D)
    ELSE <<"I", "n", "v", "a", "l", "i", "d", " ", "d", "a", "t", "e">>

\* ------------------------------------------------- parseFloat, parseInt
\* A number is [kind |-> "NaN" | "Infinity" | "finite", neg, ip, fp]: sign,
\* integer part and the digits of the fraction.  (The inputs of this model
\* carry no exponent part.)
NaN == [kind |-> "NaN", neg |-> FALSE, ip |-> 0, fp |-> <<>>]

InfinityWord == <<"I", "n", "f", "i", "n", "i", "t", "y">>

ParseFloat(value) ==
    LET s0   == SkipBlanks(JsString(value))
        sign == s0 # <<>> /\ s0[1] \in {"-", "+"}
        neg  == s0 # <<>> /\ s0[1] = "-"
        s    == IF sign THEN Tail(s0) ELSE s0
        ni   == DigitRun(s)
        r    == Drop(s, ni)
        nf   == IF r # <<>> /\ r[1] = "." THEN DigitRun(Tail(r)) ELSE 0
    IN  IF Len(s) >= 8 /\ Take(s, 8) = InfinityWord
        THEN [kind |-> "Infinity", neg |-> neg, ip |-> 0, fp |-> <<>>]
        ELSE IF ni = 0 /\ nf = 0 THEN NaN
        ELSE [kind |-> "finite", neg |-> neg, ip |-> DigitsVal(Take(s, ni)),
              fp |-> Take(Drop(r, 1), nf)]

ParseInt(value) ==
    LET s0   == SkipBlanks(JsString(value))
        sign == s0 # <<>> /\ s0[1] \in {"-", "+"}
        neg  == s0 # <<>> /\ s0[1] = "-"
        s    == IF sign THEN Tail(s0) ELSE s0
        ni   == DigitRun(s)
    IN  IF ni = 0 THEN NaN
        ELSE [kind |-> "finite", neg |-> neg, ip |-> DigitsVal(Take(s, ni)),
              fp |-> <<>>]

IsNaN(x) == x.kind = "NaN"

\* ------------------------------------------------------- program constants
Plain(name) == <<0, name, 0>>       \* a header without surrounding blanks

\* header.trim()
Trim(h) == h[2]

REQUIRED_COLUMNS ==
    <<"Date", "Symbol", "Series", "Prev Close", "Open", "High", "Low",
      "Last", "Close", "VWAP", "Volume", "Turnover", "Trades",
      "Deliverable Volume", "%Deliverble">>

dateFormats ==
    << <<"YYYY", "-", "MM", "-", "DD">>,
       <<"MM", "/", "DD", "/", "YYYY">>,
       <<"DD", "-", "MM", "-", "YYYY">> >>

numericFields ==
    <<"Prev Close", "Open", "High", "Low", "Last", "Close", "VWAP", "Volume",
      "Turnover", "Trades", "Deliverable Volume", "%Deliverble">>

\* row[field]: the cell under the header whose raw text is exactly field.
Get(row, field) ==
    IF Plain(field) \in DOMAIN row THEN row[Plain(field)] ELSE UNDEF

\* ------------------------------------------------------------- the inputs
\* Header lines a file may start with.
FullHeader == [i \in 1..Len(REQUIRED_COLUMNS) |-> Plain(REQUIRED_COLUMNS[i])]

\* " Open" instead of "Open": trimmed it is a required column, but the row
\* object is keyed by the raw text.
PaddedHeader == [FullHeader EXCEPT ![5] = <<1, "Open", 0>>]

NoDelivHeader == SubSeq(FullHeader, 1, 13)

NoSeriesHeader == SubSeq(FullHeader, 1, 2) \o SubSeq(FullHeader, 4, 15)

IncompleteHeader ==
    <<Plain("Date"), Plain("Symbol"), Plain("Open"), Plain("High"),
      Plain("Low"), Plain("Close")>>

HeaderInputs ==
    {FullHeader, PaddedHeader, NoDelivHeader, NoSeriesHeader, IncompleteHeader}

\* The cells of a valid line.
BaseCells(name) ==
    CASE name = "Date"       -> <<"2", "0", "2", "4", "-", "0", "1", "-", "0", "1">>
      [] name = "Symbol"     -> <<"A", "B", "C">>
      [] name = "Series"     -> <<"E", "Q">>
      [] name = "Prev Close" -> <<"1", "0", "0">>
      [] name = "Open"       -> <<"1", "0", "1">>
      [] name = "High"       -> <<"1", "0", "2">>
      [] name = "Low"        -> <<"9", "9">>
      [] name = "Last"       -> <<"1", "0", "1">>
      [] name = "Close"      -> <<"1", "0", "2">>
      [] name = "VWAP"       -> <<"1", "0", "1", ".", "5">>
      [] name = "Volume"     -> <<"1", "0", "0", "0">>
      [] name = "Turnover"   -> <<"1", "0", "0", "0", "0">>
      [] name = "Trades"     -> <<"1", "0">>
      [] name = "Deliverable Volume" -> <<"5", "0", "0">>
      [] name = "%Deliverble" -> <<"5", "0", ".", "0">>

\* Lines of the file: the valid line with some cells replaced.
RowInputs ==
    { <<>>,
      << <<"Date", <<"0", "1", "/", "3", "1", "/", "2", "0", "2", "4">> >> >>,
      << <<"Date", <<"3", "1", "-", "0", "1", "-", "2", "0", "2", "4">> >> >>,
      << <<"Date", <<"2", "0", "2", "4", "-", "0", "2", "-", "3", "0">> >> >>,
      << <<"Date", <<"I", "n", "v", "a", "l", "i", "d", "D", "a", "t", "e">> >>,
         <<"Prev Close", <<"a", "b", "c">> >> >>,
      << <<"Prev Close", <<>> >> >>,
      << <<"Prev Close", <<"a", "b", "c">> >>, <<"Volume", <<>> >> >>,
      << <<"Prev Close", <<"1", "2", "a", "b", "c">> >> >>,
      << <<"Volume", InfinityWord>> >>,
      << <<"Symbol", <<>> >> >> }

\* The row object csv-parser builds for a line: one key per raw header.
MakeRow(hdrs, ov) ==
    [h \in Range(hdrs) |->
        IF \E i \in 1..Len(ov) : ov[i][1] = Trim(h)
        THEN (CHOOSE c \in Range(ov) : c[1] = Trim(h))[2]
        ELSE BaseCells(Trim(h))]

\* Messages a failed save may carry.
SaveErrors == {"db error"}

\* ------------------------------------------------------- the row handler
DateReason(n) ==
    [kind |-> "Invalid date format in row", field |-> "", row |-> n, msg |-> ""]
NumberReason(f, n) ==
    [kind |-> "Invalid number in field", field |-> f, row |-> n, msg |-> ""]
SaveReason(n, m) ==
    [kind |-> "Error saving record in row", field |-> "", row |-> n, msg |-> m]

\* No reason: the catch block of a save has not run.
NoReason == [kind |-> "", field |-> "", row |-> 0, msg |-> ""]

isValidDate(row) ==
    \E i \in 1..Len(dateFormats) : MomentStrict(Get(row, "Date"), dateFormats[i]).valid

\* isNaN(parseFloat(value)) || value === ''
NumberFails(value) == IsNaN(ParseFloat(value)) \/ value = <<>>

\* A faulty variant of ValidateRow: the numeric fields are skipped once the date
\* has failed.
ValidateRowShortCircuit(row, n) ==
    IF ~isValidDate(row) THEN <<DateReason(n)>>
    ELSE LET bad == SelectSeq(numericFields, LAMBDA f : NumberFails(Get(row, f)))
         IN  [i \in 1..Len(bad) |-> NumberReason(bad[i], n)]

\* A faulty variant of ValidateRow: the numeric fields are not checked.
ValidateRowDateOnly(row, n) ==
    IF isValidDate(row) THEN <<>> ELSE <<DateReason(n)>>

\* The reasons the handler adds for row n, in the order it adds them.
ValidateRow(row, n) ==
    LET bad == SelectSeq(numericFields, LAMBDA f : NumberFails(Get(row, f)))
    IN  (IF isValidDate(row) THEN <<>> ELSE <<DateReason(n)>>)
        \o [i \in 1..Len(bad) |-> NumberReason(bad[i], n)]

\* A faulty variant of FailedIncrement: one count per failing field.
FailedIncrementPerField(reasons) == Len(reasons)

\* if (recordfailed) numberoffailedrecords += 1
FailedIncrement(reasons) == IF reasons # <<>> THEN 1 ELSE 0

\* new Stock({...})
NewStock(row) ==
    [date     |-> FormatISO(MomentStrictAny(Get(row, "Date"), dateFormats)),
     symbol   |-> Get(row, "Symbol"),
     series   |-> Get(row, "Series"),
     prev_close |-> ParseFloat(Get(row, "Prev Close")),
     open     |-> ParseFloat(Get(row, "Open")),
     high     |-> ParseFloat(Get(row, "High")),
     low      |-> ParseFloat(Get(row, "Low")),
     last     |-> ParseFloat(Get(row, "Last")),
     close    |-> ParseFloat(Get(row, "Close")),
     vwap     |-> ParseFloat(Get(row, "VWAP")),
     volume   |-> ParseInt(Get(row, "Volume")),
     turnover |-> ParseFloat(Get(row, "Turnover")),
     trades   |-> ParseInt(Get(row, "Trades")),
     deliverable |-> ParseInt(Get(row, "Deliverable Volume")),
     percent_deliverable |-> ParseFloat(Get(row, "%Deliverble"))]

\* A faulty variant of RequiredPresent: series is not marked required.
RequiredPresentNoSeries(rec) ==
    /\ rec.symbol # UNDEF /\ rec.symbol # <<>>
    /\ rec.date # <<>>

\* StockSchema: every path is required; a required string must be non-empty.
RequiredPresent(rec) ==
    /\ rec.symbol # UNDEF /\ rec.symbol # <<>>
    /\ rec.series # UNDEF /\ rec.series # <<>>
    /\ rec.date # <<>>

\* A faulty variant of AddAll: an array push, which keeps duplicates.
AddAllNoDedup(set, rs) == set \o rs

\* Set.add of each reason, in order: a Set keeps insertion order.
RECURSIVE AddAll(_, _)
AddAll(set, rs) ==
    IF rs = <<>> THEN set
    ELSE AddAll(IF rs[1] \in Range(set) THEN set ELSE Append(set, rs[1]), Tail(rs))

\* ------------------------------------------------------- the end handler
\* A faulty variant of missingColumns: only the first absent column is reported.
missingColumnsFirstOnly(cols) ==
    LET all == SelectSeq(REQUIRED_COLUMNS, LAMBDA col : col \notin cols)
    IN  IF all = <<>> THEN <<>> ELSE <<all[1]>>

\* REQUIRED_COLUMNS.filter((col) => !columns.has(col))
missingColumns(cols) == SelectSeq(REQUIRED_COLUMNS, LAMBDA col : col \notin cols)

\* new Error(`Missing columns: ${missingColumns.join(', ')}`)
MissingColumnsError(missing) ==
    [name |-> "Error", message |-> [text |-> "Missing columns: ", joined |-> missing]]

\* A faulty variant of Reconcile: the running tally of completed saves is reported.
ReconcileKeepTally(len, failed, tally) == tally

\* numberofsucceedrecords = length - numberoffailedrecords
Reconcile(len, failed, tally) == len - failed

\* A faulty variant of HasErrors: a single error is let through.
HasErrorsOffByOne(errs) == Len(errs) > 1

\* errors.length > 0
HasErrors(errs) == Len(errs) > 0

\* The value the 'end' handler settles the promise with.
EndOutcome(cols, len, failed, tally, reasons, errs) ==
    LET missing == missingColumns(cols)
        succeed == Reconcile(len, failed, tally)
    IN  IF Len(missing) > 0
        THEN [state |-> "rejected", value |-> MissingColumnsError(missing)]
        ELSE IF HasErrors(errs)
        THEN [state |-> "rejected",
              value |-> [error |-> "Validation errors found",
                         totalRecords |-> len,
                         failedRecords |-> failed,
                         successfulRecords |-> succeed,
                         failureReasons |-> reasons]]
        ELSE [state |-> "resolved",
              value |-> [message |-> "File validated successfully",
                         totalRecords |-> len,
                         failedRecords |-> failed,
                         successfulRecords |-> succeed]]

\* A faulty variant of ReportAfterAdd: the report holds the Set itself, so a
\* later add shows in it.
ReportAfterAddAliased(p, live) ==
    IF "failureReasons" \in DOMAIN p.value
    THEN [p EXCEPT !.value.failureReasons = live] ELSE p

\* failureReasons: Array.from(failurereasons) is a copy: a reason added to
\* the Set after the report was made leaves the report as it is.
ReportAfterAdd(p, live) == p

\* resolve/reject settle a promise once; later calls change nothing.
Settle(p, outcome) == IF p.state = "pending" THEN outcome ELSE p

\* A faulty variant of ReleaseFile: the file is deleted on the success path only.
ReleaseFileOnSuccess(file, p) == file /\ p.state = "resolved"

\* finally { if (req.file) fs.unlink(...) }
ReleaseFile(file, p) == file

\* ------------------------------------------------------------------- state
VARIABLES
    hpc,        \* the upload handler: "idle", "awaiting" the promise, "done"
    reqFile,    \* req.file is set
    status,     \* the HTTP status sent, 0 before
    unlinked,   \* fs.unlink was issued for the uploaded file
    stream,     \* "closed", "open", "flowing", "ended", "errored", "crashed"
    headers,    \* the raw header line the parser read
    columns,    \* Set of trimmed header names
    length, numberoffailedrecords, numberofsucceedrecords,
    failurereasons,   \* Set of reasons, in insertion order
    errors,           \* every reason pushed
    saves,      \* the save() calls issued: row, record, status, and the
                \* reason its catch block pushed
    promise,    \* the promise validateCSVAndStoreCSV returned
    parsed,     \* the rows read so far, each with the reasons its handler added
    cells,      \* two invocations: the accounting variables of each scope
    calls,      \* two invocations: stream, saves in flight and promise of each
    solo        \* two invocations: what each would hold had it run alone

vars == <<hpc, reqFile, status, unlinked, stream, headers, columns, length,
          numberoffailedrecords, numberofsucceedrecords, failurereasons,
          errors, saves, promise, parsed, cells, calls, solo>>

pairVars == <<cells, calls, solo>>
singleVars == <<hpc, reqFile, status, unlinked, stream, headers, columns, length,
                numberoffailedrecords, numberofsucceedrecords, failurereasons,
                errors, saves, promise, parsed>>

\* The two invocations of validateCSVAndStoreCSV that run interleaved.
Batches == {1, 2}

\* The accounting variables a fresh invocation declares.
AccInit ==
    [columns |-> {}, length |-> 0, numberoffailedrecords |-> 0,
     numberofsucceedrecords |-> 0, failurereasons |-> <<>>, errors |-> <<>>]

CallInit ==
    [stream |-> "closed", headers |-> <<>>, rows |-> <<>>, saves |-> <<>>,
     promise |-> [state |-> "pending", value |-> <<>>]]

handlerVars == <<hpc, reqFile, status, unlinked>>
counterVars == <<length, numberoffailedrecords, numberofsucceedrecords,
                 failurereasons, errors>>

Init ==
    /\ hpc = "idle" /\ reqFile = FALSE /\ status = 0 /\ unlinked = FALSE
    /\ stream = "closed" /\ headers = <<>> /\ columns = {}
    /\ length = 0 /\ numberoffailedrecords = 0 /\ numberofsucceedrecords = 0
    /\ failurereasons = <<>> /\ errors = <<>>
    /\ saves = <<>>
    /\ promise = [state |-> "pending", value |-> <<>>]
    /\ parsed = <<>>
    /\ cells = [b \in Batches |-> AccInit]
    /\ calls = [b \in Batches |-> CallInit]
    /\ solo = [b \in Batches |-> [acc |-> AccInit, promise |-> CallInit.promise]]

\* The process is alive: an uncaught exception ends it.
Alive == stream # "crashed"

\* POST /upload arrives.  Without a file the handler answers 400 at once;
\* with one it calls validateCSVAndStoreCSV, which opens the read stream.
Upload(file) ==
    /\ hpc = "idle"
    /\ reqFile' = file
    /\ IF file
       THEN /\ hpc' = "awaiting" /\ stream' = "open"
            /\ UNCHANGED <<status, unlinked>>
       ELSE /\ hpc' = "done" /\ status' = 400
            /\ unlinked' = ReleaseFile(file, promise)
            /\ UNCHANGED stream
    /\ UNCHANGED pairVars
    /\ UNCHANGED <<headers, columns, counterVars, saves, promise, parsed>>

\* on('headers')
Headers(hdrs) ==
    /\ stream = "open"
    /\ stream' = "flowing"
    /\ headers' = hdrs
    /\ columns' = columns \cup {Trim(hdrs[i]) : i \in 1..Len(hdrs)}
    /\ UNCHANGED pairVars
    /\ UNCHANGED <<handlerVars, counterVars, saves, promise, parsed>>

\* on('data'), up to the await of save()
Data(ov) ==
    /\ stream = "flowing"
    /\ length < MaxRows
    /\ LET row     == MakeRow(headers, ov)
           n       == length + 1
           reasons == ValidateRow(row, n)
       IN  /\ length' = n
           /\ failurereasons' = AddAll(failurereasons, reasons)
           /\ errors' = errors \o reasons
           /\ numberoffailedrecords' = numberoffailedrecords + FailedIncrement(reasons)
           /\ saves' = IF reasons # <<>> THEN saves
                       ELSE Append(saves, [row |-> n, record |-> NewStock(row),
                                           status |-> "pending",
                                           error |-> NoReason])
           /\ parsed' = Append(parsed, [row |-> row, added |-> reasons])
    /\ UNCHANGED pairVars
    /\ UNCHANGED <<handlerVars, stream, headers, columns,
                   numberofsucceedrecords, promise>>

\* save() resolved: the handler of that row resumes after the await.
SaveOk(i) ==
    /\ Alive
    /\ i \in 1..Len(saves)
    /\ saves[i].status = "pending"
    /\ RequiredPresent(saves[i].record)
    /\ saves' = [saves EXCEPT ![i].status = "ok"]
    /\ numberofsucceedrecords' = numberofsucceedrecords + 1
    /\ UNCHANGED pairVars
    /\ UNCHANGED <<handlerVars, stream, headers, columns, length,
                   numberoffailedrecords, failurereasons, errors, promise, parsed>>

\* save() rejected: the catch block of that row's handler runs.
SaveFail(i, m) ==
    /\ Alive
    /\ i \in 1..Len(saves)
    /\ saves[i].status = "pending"
    /\ LET error == SaveReason(length, m)
       IN  /\ failurereasons' = AddAll(failurereasons, <<error>>)
           /\ errors' = Append(errors, error)
    /\ numberoffailedrecords' = numberoffailedrecords + 1
    /\ saves' = [saves EXCEPT ![i].status = "failed",
                              ![i].error = SaveReason(length, m)]
    /\ promise' = ReportAfterAdd(promise, failurereasons')
    /\ UNCHANGED pairVars
    /\ UNCHANGED <<handlerVars, stream, headers, columns, length,
                   numberofsucceedrecords, parsed>>

\* on('end')
End ==
    /\ stream \in {"open", "flowing"}
    /\ stream' = "ended"
    /\ numberofsucceedrecords' =
          IF Len(missingColumns(columns)) > 0 THEN numberofsucceedrecords
          ELSE Reconcile(length, numberoffailedrecords, numberofsucceedrecords)
    /\ promise' = Settle(promise,
                         EndOutcome(columns, length, numberoffailedrecords,
                                    numberofsucceedrecords, failurereasons, errors))
    /\ UNCHANGED pairVars
    /\ UNCHANGED <<handlerVars, headers, columns, length, numberoffailedrecords,
                   failurereasons, errors, saves, parsed>>

\* on('error') of the parser stream, the stream the handler is attached to
ParserError ==
    /\ stream \in {"open", "flowing"}
    /\ stream' = "errored"
    /\ promise' = Settle(promise, [state |-> "rejected",
                                   value |-> [error |-> "parser error"]])
    /\ UNCHANGED pairVars
    /\ UNCHANGED <<handlerVars, headers, columns, counterVars, saves, parsed>>

\* 'error' of the file read stream (ENOENT, EIO).  pipe() forwards no
\* errors and the read stream has no 'error' listener: the event is thrown
\* as an uncaught exception.
ReadError ==
    /\ stream \in {"open", "flowing"}
    /\ stream' = "crashed"
    /\ UNCHANGED pairVars
    /\ UNCHANGED <<handlerVars, headers, columns, counterVars, saves, promise,
                   parsed>>

\* The handler resumes from `await validateCSVAndStoreCSV(file.path)`:
\* 201 on fulfilment, 400 from the catch block, then the finally block.
Respond ==
    /\ Alive
    /\ hpc = "awaiting"
    /\ promise.state # "pending"
    /\ hpc' = "done"
    /\ status' = IF promise.state = "resolved" THEN 201 ELSE 400
    /\ unlinked' = ReleaseFile(reqFile, promise)
    /\ UNCHANGED pairVars
    /\ UNCHANGED <<reqFile, stream, headers, columns, counterVars, saves,
                   promise, parsed>>

Next ==
    \/ \E file \in BOOLEAN : Upload(file)
    \/ \E hdrs \in HeaderInputs : Headers(hdrs)
    \/ \E ov \in RowInputs : Data(ov)
    \/ \E i \in 1..Len(saves) : SaveOk(i)
    \/ \E i \in 1..Len(saves), m \in SaveErrors : SaveFail(i, m)
    \/ End
    \/ ParserError
    \/ ReadError
    \/ Respond

Spec == Init /\ [][Next]_vars

\* The event loop runs every event that is ready: the stream comes to an end
\* or fails, every save issued completes, and a settled promise resumes the
\* handler.  (The file may end after any row, so reading a further row is
\* not forced.)
FairSpec ==
    /\ Spec
    /\ WF_vars(End \/ ParserError \/ ReadError)
    /\ \A i \in 1..MaxRows : WF_vars(SaveOk(i) \/ \E m \in SaveErrors : SaveFail(i, m))
    /\ WF_vars(Respond)

\* ------------------------------------------- two interleaved invocations
\* Header lines and file lines of the two-invocation runs.
PairHeaderInputs == {FullHeader, NoDelivHeader}

PairRowInputs ==
    { <<>>,
      << <<"Date", <<"I", "n", "v", "a", "l", "i", "d", "D", "a", "t", "e">> >>,
         <<"Prev Close", <<"a", "b", "c">> >> >> }

\* A faulty variant of Scope: the variables are declared at module level,
\* one set for all invocations.
ScopeShared(b) == 1

\* let length = 0; ... inside the function body: each invocation has its own
\* variables.
Scope(b) == b

\* on('headers') on the accounting variables
AccHeaders(a, hdrs) ==
    [a EXCEPT !.columns = @ \cup {Trim(hdrs[i]) : i \in 1..Len(hdrs)}]

\* on('data') up to the await, on the accounting variables
AccData(a, row) ==
    LET n       == a.length + 1
        reasons == ValidateRow(row, n)
    IN  [a EXCEPT !.length = n,
                  !.failurereasons = AddAll(@, reasons),
                  !.errors = @ \o reasons,
                  !.numberoffailedrecords = @ + FailedIncrement(reasons)]

AccSaveOk(a) == [a EXCEPT !.numberofsucceedrecords = @ + 1]

AccSaveFail(a, m) ==
    [a EXCEPT !.failurereasons = AddAll(@, <<SaveReason(a.length, m)>>),
              !.errors = Append(@, SaveReason(a.length, m)),
              !.numberoffailedrecords = @ + 1]

AccEnd(a) ==
    IF Len(missingColumns(a.columns)) > 0 THEN a
    ELSE [a EXCEPT !.numberofsucceedrecords =
                       Reconcile(a.length, a.numberoffailedrecords, @)]

AccOutcome(a) ==
    EndOutcome(a.columns, a.length, a.numberoffailedrecords,
               a.numberofsucceedrecords, a.failurereasons, a.errors)

\* The variables invocation b's handlers close over, and what b would hold
\* alone.
Mine(b) == cells[Scope(b)]
Alone(b) == solo[b].acc

\* One event of invocation b: its variables take the value mine, and what b
\* would hold alone takes the value alone.
Account(b, mine, alone) ==
    /\ cells' = [cells EXCEPT ![Scope(b)] = mine]
    /\ solo' = [solo EXCEPT ![b].acc = alone]

\* validateCSVAndStoreCSV(filePath) is called: fresh variables, stream opened.
Invoke(b) ==
    /\ calls[b].stream = "closed"
    /\ calls' = [calls EXCEPT ![b].stream = "open"]
    /\ Account(b, AccInit, AccInit)
    /\ UNCHANGED singleVars

PairHeaders(b, hdrs) ==
    /\ calls[b].stream = "open"
    /\ calls' = [calls EXCEPT ![b].stream = "flowing", ![b].headers = hdrs]
    /\ Account(b, AccHeaders(Mine(b), hdrs), AccHeaders(Alone(b), hdrs))
    /\ UNCHANGED singleVars

PairData(b, ov) ==
    /\ calls[b].stream = "flowing"
    /\ Len(calls[b].rows) < MaxPairRows
    /\ LET row == MakeRow(calls[b].headers, ov)
           a   == cells[Scope(b)]
       IN  /\ calls' = [calls EXCEPT
                 ![b].rows = Append(@, row),
                 ![b].saves = IF ValidateRow(row, a.length + 1) # <<>> THEN @
                              ELSE Append(@, "pending")]
           /\ Account(b, AccData(Mine(b), row), AccData(Alone(b), row))
    /\ UNCHANGED singleVars

PairSaveOk(b, i) ==
    /\ i \in 1..Len(calls[b].saves)
    /\ calls[b].saves[i] = "pending"
    /\ calls' = [calls EXCEPT ![b].saves[i] = "ok"]
    /\ Account(b, AccSaveOk(Mine(b)), AccSaveOk(Alone(b)))
    /\ UNCHANGED singleVars

PairSaveFail(b, i, m) ==
    /\ i \in 1..Len(calls[b].saves)
    /\ calls[b].saves[i] = "pending"
    /\ calls' = [calls EXCEPT ![b].saves[i] = "failed"]
    /\ Account(b, AccSaveFail(Mine(b), m), AccSaveFail(Alone(b), m))
    /\ UNCHANGED singleVars

PairEnd(b) ==
    /\ calls[b].stream \in {"open", "flowing"}
    /\ calls' = [calls EXCEPT
          ![b].stream = "ended",
          ![b].promise = Settle(@, AccOutcome(cells[Scope(b)]))]
    /\ cells' = [cells EXCEPT ![Scope(b)] = AccEnd(cells[Scope(b)])]
    /\ solo' = [solo EXCEPT ![b].acc = AccEnd(solo[b].acc),
                            ![b].promise = Settle(@, AccOutcome(solo[b].acc))]
    /\ UNCHANGED singleVars

PairParserError(b) ==
    /\ calls[b].stream \in {"open", "flowing"}
    /\ calls' = [calls EXCEPT
          ![b].stream = "errored",
          ![b].promise = Settle(@, [state |-> "rejected",
                                    value |-> [error |-> "parser error"]])]
    /\ solo' = [solo EXCEPT
          ![b].promise = Settle(@, [state |-> "rejected",
                                    value |-> [error |-> "parser error"]])]
    /\ UNCHANGED <<cells, singleVars>>

PairNext ==
    \E b \in Batches :
        \/ Invoke(b)
        \/ \E hdrs \in PairHeaderInputs : PairHeaders(b, hdrs)
        \/ \E ov \in PairRowInputs : PairData(b, ov)
        \/ \E i \in 1..MaxPairRows : PairSaveOk(b, i)
        \/ \E i \in 1..MaxPairRows, m \in SaveErrors : PairSaveFail(b, i, m)
        \/ PairEnd(b)
        \/ PairParserError(b)

PairSpec == Init /\ [][PairNext]_vars

\* ================================================================= claims
\* The shapes of the value a settled promise carries.
IsSuccessReport(v) ==
    /\ DOMAIN v = {"message", "totalRecords", "failedRecords", "successfulRecords"}
    /\ v.message = "File validated successfully"

IsFailureReport(v) ==
    /\ DOMAIN v = {"error", "totalRecords", "failedRecords", "successfulRecords",
                   "failureReasons"}
    /\ v.error = "Validation errors found"

IsBatchReport(v) == IsSuccessReport(v) \/ IsFailureReport(v)

IsMissingColumnsError(v) == DOMAIN v = {"name", "message"} /\ v.name = "Error"

PendingSaves == {i \in 1..Len(saves) : saves[i].status = "pending"}
FailedSaves  == {i \in 1..Len(saves) : saves[i].status = "failed"}
RejectedRows == {n \in 1..Len(parsed) : parsed[n].added # <<>>}

\* The required columns absent from the trimmed header line, in required order.
AbsentColumns ==
    SelectSeq(REQUIRED_COLUMNS,
              LAMBDA col : ~\E i \in 1..Len(headers) : Trim(headers[i]) = col)

\* C1: the promise is never settled with a BatchReport while a save issued
\* for a row of the batch is still unresolved.
C1_NoPrematureFinalization ==
    IsBatchReport(promise.value) => PendingSaves = {}

\* C2: with a complete header and no stream error, a batch in which a save
\* failed ends in the failure report, the row is counted in failedRecords and
\* failureReasons holds an 'Error saving record in row' reason.
C2_SaveFailureReported ==
    (stream = "ended" /\ AbsentColumns = <<>> /\ FailedSaves # {}) =>
        /\ IsFailureReport(promise.value)
        /\ promise.value.failedRecords =
              Cardinality(RejectedRows) + Cardinality(FailedSaves)
        /\ promise.value.successfulRecords =
              promise.value.totalRecords - promise.value.failedRecords
        /\ \E k \in 1..Len(promise.value.failureReasons) :
              promise.value.failureReasons[k].kind = "Error saving record in row"

\* C3: in the final report successfulRecords + failedRecords = totalRecords,
\* and totalRecords is the number of data rows parsed.
C3_CountsAddUp ==
    IsBatchReport(promise.value) =>
        /\ promise.value.successfulRecords + promise.value.failedRecords
              = promise.value.totalRecords
        /\ promise.value.totalRecords = Len(parsed)

\* C3 witness: a report made of two rows, one rejected and one whose save is
\* still in flight.
C3_Witness ==
    /\ IsFailureReport(promise.value)
    /\ promise.value.totalRecords = 2
    /\ promise.value.failedRecords = 1
    /\ PendingSaves # {}

\* C4 as stated: whenever a required column is absent, the outcome is the
\* missing-columns failure naming exactly the absent columns.
C4_Original ==
    (AbsentColumns # <<>> /\ promise.state # "pending") =>
        /\ IsMissingColumnsError(promise.value)
        /\ promise.value.message.joined = AbsentColumns

\* C4 (amended): when the stream reaches its end without a stream error and a
\* required column is absent, the promise is rejected with an Error whose
\* message is 'Missing columns: ' and the absent required names in required
\* order, and the outcome carries no counts and no row reasons.
C4_MissingColumnsFailure ==
    (stream = "ended" /\ AbsentColumns # <<>>) =>
        /\ promise.state = "rejected"
        /\ promise.value =
              [name |-> "Error",
               message |-> [text |-> "Missing columns: ", joined |-> AbsentColumns]]

\* C4 witness: two columns are absent, every data row was read, and the end
\* was reached.
C4_Witness ==
    /\ stream = "ended"
    /\ Len(AbsentColumns) = 2
    /\ length >= 1
    /\ IsMissingColumnsError(promise.value)

\* C4 second case: a row was accepted and handed to save before the header
\* check failed.
C4_SavedRowWitness ==
    /\ stream = "ended" /\ AbsentColumns # <<>> /\ Len(saves) >= 1

\* C5: with a complete header, the end of the stream settles the promise
\* with the failure report iff the reason set is non-empty then, and with the
\* success report, failedRecords = 0 and successfulRecords = totalRecords,
\* otherwise.
C5_ReportShape ==
    [][(stream # "ended" /\ stream' = "ended" /\ AbsentColumns = <<>>) =>
          IF failurereasons # <<>>
          THEN /\ promise'.state = "rejected"
               /\ IsFailureReport(promise'.value)
               /\ promise'.value.totalRecords = length
               /\ promise'.value.failedRecords = numberoffailedrecords
               /\ promise'.value.failureReasons = failurereasons
          ELSE /\ promise'.state = "resolved"
               /\ IsSuccessReport(promise'.value)
               /\ promise'.value.totalRecords = length
               /\ promise'.value.failedRecords = 0
               /\ promise'.value.successfulRecords = length]_vars

\* C5 witness: every row was valid, every save succeeded, and the success
\* report counts them all.
C5_Witness ==
    /\ IsSuccessReport(promise.value)
    /\ promise.value.totalRecords >= 1
    /\ promise.value.successfulRecords = promise.value.totalRecords
    /\ \A i \in 1..Len(saves) : saves[i].status = "ok"
    /\ Len(saves) = length

\* C5 second case: a header-only file succeeds with totalRecords = 0.
C5_HeaderOnlyWitness ==
    /\ IsSuccessReport(promise.value) /\ promise.value.totalRecords = 0

\* The reasons C6 expects for row n.
ExpectedReasons(row, n) ==
    (IF \E i \in 1..Len(dateFormats) :
            MomentStrict(Get(row, "Date"), dateFormats[i]).valid
     THEN {} ELSE {DateReason(n)})
    \cup {NumberReason(f, n) : f \in
            {g \in Range(numericFields) :
                Get(row, g) = <<>> \/ IsNaN(ParseFloat(Get(row, g)))}}

\* C6: the reasons the handler of row n pushes are the date reason iff no
\* layout matches the date, one number reason for each numeric field that is
\* empty or does not parse, and nothing else.
C6_NoShortCircuit ==
    [][Len(parsed') = Len(parsed) + 1 =>
          LET n        == Len(parsed')
              added    == SubSeq(errors', Len(errors) + 1, Len(errors'))
              expected == ExpectedReasons(parsed'[n].row, n)
          IN  /\ n = length'
              /\ parsed'[n].added = added
              /\ Range(added) = expected
              /\ Len(added) = Cardinality(expected)
              /\ \A r \in expected : r \in Range(failurereasons')]_vars

\* C6 witness: a row with a bad date and a bad number got both reasons.
C6_Witness ==
    \E n \in 1..Len(parsed) :
        /\ Get(parsed[n].row, "Prev Close") = <<"a", "b", "c">>
        /\ parsed[n].added = <<DateReason(n), NumberReason("Prev Close", n)>>

\* C6 second case: a row whose only fault is the date got the date reason alone.
C6_DateOnlyWitness ==
    \E n \in 1..Len(parsed) :
        /\ headers = FullHeader
        /\ parsed[n].added = <<DateReason(n)>>

\* C7: each row raises the failed count by at most one: the count is the
\* number of rejected rows plus the number of failed saves, no rejected row
\* has a save, no row has two, and failed <= total.
C7_OneFailurePerRow ==
    /\ numberoffailedrecords = Cardinality(RejectedRows) + Cardinality(FailedSaves)
    /\ \A i \in 1..Len(saves) : saves[i].row \notin RejectedRows
    /\ \A i, j \in 1..Len(saves) : saves[i].row = saves[j].row => i = j
    /\ numberoffailedrecords <= length

\* C7 witness: one row with two failing fields, counted once.
C7_Witness ==
    /\ length = 1
    /\ Len(parsed[1].added) = 2
    /\ numberoffailedrecords = 1

\* C8: an empty or absent source is rejected with a failure of the shape
\* {error: 'Validation errors found', ...}; no missing-columns Error and no
\* unhandled exception reaches the caller.
C8_DegenerateInputFails ==
    (headers = <<>> /\ stream \in {"ended", "crashed"}) =>
        /\ promise.state = "rejected"
        /\ "error" \in DOMAIN promise.value
        /\ promise.value.error = "Validation errors found"

C10_AlwaysCompletes ==
    (stream \in {"ended", "errored", "crashed"} /\ ~ENABLED Next) =>
        promise.state # "pending"

\* C11: a stream-read error, of the file read stream or of the parser,
\* ends the batch with the low-level failure {error: <description>},
\* whatever was counted so far.
C11_StreamErrorReported ==
    stream \in {"errored", "crashed"} =>
        /\ promise.state = "rejected"
        /\ DOMAIN promise.value = {"error"}

\* C12: the reason a failed save adds names the row the save was issued for.
C12_SaveReasonNamesOwnRow ==
    \A i \in FailedSaves : saves[i].error.row = saves[i].row

\* The place of a reason in a list without duplicates.
Position(seq, x) == CHOOSE k \in 1..Len(seq) : seq[k] = x

\* C13: failureReasons lists the reasons in input order: every reason of row
\* i comes before every reason of row j > i, also when row i's reason comes
\* from a save that completed after row j was validated.
C13_ReasonsInInputOrder ==
    IsFailureReport(promise.value) =>
        LET listed == Range(promise.value.failureReasons)
            owned  == UNION {{<<n, r>> : r \in Range(parsed[n].added)} :
                                n \in 1..Len(parsed)}
                      \cup {<<saves[i].row, saves[i].error>> : i \in FailedSaves}
        IN  \A a, b \in owned :
                (a[1] < b[1] /\ a[2] \in listed /\ b[2] \in listed) =>
                    Position(promise.value.failureReasons, a[2])
                        < Position(promise.value.failureReasons, b[2])

\* C14: the failureReasons of the report hold no string twice and hold every
\* distinct reason generated before the report was made.
C14_ReasonsDeduplicated ==
    [][(stream # "ended" /\ stream' = "ended" /\ IsFailureReport(promise'.value)) =>
          LET listed == promise'.value.failureReasons
          IN  /\ \A k, l \in 1..Len(listed) : listed[k] = listed[l] => k = l
              /\ Range(listed) = Range(errors)]_vars

\* C14 witness: two saves failed with the same text, 'row 2' and the same
\* message, and the report lists the one reason for both failed rows.
C14_Witness ==
    /\ IsFailureReport(promise.value)
    /\ promise.value.failedRecords = 2
    /\ Len(promise.value.failureReasons) = 1
    /\ promise.value.failureReasons[1].kind = "Error saving record in row"

IsLowLevelFailure(v) == DOMAIN v = {"error"}

\* C15: the promise is settled at most once, with exactly one of the four
\* outcomes, and a settled outcome never changes, also when saves complete
\* afterwards.
C15_OutcomeFinal ==
    [][/\ promise.state # "pending" => promise' = promise
       /\ promise'.state # "pending" =>
             /\ Cardinality({k \in 1..4 :
                    \/ k = 1 /\ IsSuccessReport(promise'.value)
                    \/ k = 2 /\ IsFailureReport(promise'.value)
                    \/ k = 3 /\ IsMissingColumnsError(promise'.value)
                    \/ k = 4 /\ IsLowLevelFailure(promise'.value)}) = 1
             /\ promise'.state = "resolved" <=> IsSuccessReport(promise'.value)]_vars

\* C15 witness: a save failed after the failure report was made: the
\* pipeline's Set has a reason the report does not have.
C15_Witness ==
    /\ IsFailureReport(promise.value)
    /\ Len(failurereasons) > Len(promise.value.failureReasons)
    /\ numberoffailedrecords > promise.value.failedRecords

\* The raw text is wholly a finite decimal number: an optional sign, digits
\* and an optional fraction, with nothing before or after.
WhollyFinite(raw) ==
    /\ raw # UNDEF
    /\ LET s  == IF raw # <<>> /\ raw[1] \in {"-", "+"} THEN Tail(raw) ELSE raw
           ni == DigitRun(s)
           r  == Drop(s, ni)
           nf == IF r # <<>> /\ r[1] = "." THEN DigitRun(Tail(r)) ELSE 0
       IN  /\ ni + nf > 0
           /\ Len(s) = ni + (IF r # <<>> /\ r[1] = "." THEN 1 + nf ELSE 0)

\* C17: every record handed to save() has a date in canonical YYYY-MM-DD form
\* that came from a recognized layout, and each numeric field came from a
\* raw value that is non-empty and wholly a finite number.
C17_NormalizedRecord ==
    \A i \in 1..Len(saves) :
        LET raw == parsed[saves[i].row].row
            rec == saves[i].record
        IN  /\ isValidDate(raw)
            /\ MomentStrict(rec.date, dateFormats[1]).valid
            /\ \A f \in Range(numericFields) : WhollyFinite(Get(raw, f))
            /\ \A x \in {rec.prev_close, rec.open, rec.high, rec.low, rec.last,
                         rec.close, rec.vwap, rec.volume, rec.turnover,
                         rec.trades, rec.deliverable, rec.percent_deliverable} :
                   x.kind = "finite"

\* C18: save() is called once for each row that passes validation and never
\* for a row with a failing field, in the order the rows arrive; a row once
\* read is not read or saved again.
C18_OneSavePerValidRow ==
    [][/\ Len(parsed') = Len(parsed) + 1 =>
             LET n == Len(parsed')
             IN  IF ExpectedReasons(parsed'[n].row, n) = {}
                 THEN /\ Len(saves') = Len(saves) + 1
                      /\ saves'[Len(saves')].row = n
                      /\ saves'[Len(saves')].status = "pending"
                      /\ \A i \in 1..Len(saves) : saves[i].row < n
                 ELSE Len(saves') = Len(saves)
       /\ Len(parsed') # Len(parsed) + 1 =>
             /\ parsed' = parsed
             /\ Len(saves') = Len(saves)
       /\ SubSeq(parsed', 1, Len(parsed)) = parsed
       /\ \A i \in 1..Len(saves) :
             /\ saves'[i].row = saves[i].row
             /\ saves'[i].record = saves[i].record]_vars

\* C18 witness: row 1 was rejected and has no save, row 2 passed and has the
\* one save.
C18_Witness ==
    /\ Len(parsed) = 2
    /\ parsed[1].added # <<>>
    /\ parsed[2].added = <<>>
    /\ Len(saves) = 1
    /\ saves[1].row = 2

\* C19 as stated: when the batch ends in the missing-columns failure, no
\* save was issued for any of its rows.
C19_Original ==
    (stream = "ended" /\ IsMissingColumnsError(promise.value)) => saves = <<>>

\* C19 (amended): when the batch ends in the missing-columns failure, no
\* record of the batch has been stored: a save was issued only for rows of a
\* header that lacks Symbol or Series, and no such save succeeds.
C19_NothingStored ==
    (stream = "ended" /\ IsMissingColumnsError(promise.value)) =>
        \A i \in 1..Len(saves) :
            /\ saves[i].status # "ok"
            /\ \A k \in 1..Len(AbsentColumns) : AbsentColumns[k] \in {"Symbol", "Series"}
            /\ UNDEF \in {saves[i].record.symbol, saves[i].record.series}

\* C19 witness: the header lacks Series, a row passed validation, its save
\* was issued and failed, and the batch ended in the missing-columns failure.
C19_Witness ==
    /\ stream = "ended"
    /\ IsMissingColumnsError(promise.value)
    /\ Len(saves) >= 1
    /\ saves[1].status = "failed"

\* C16: two invocations running interleaved share no accounting state: the
\* counters, header set and reason set each one sees, and the outcome it
\* settles with, are those it would have had running alone.
C16_NoSharedState ==
    \A b \in Batches :
        /\ cells[Scope(b)] = solo[b].acc
        /\ calls[b].promise = solo[b].promise

\* C16 witness: both invocations are reading at the same time; the first has
\* read a valid row whose save is in flight, the second a rejected row.
C16_Witness ==
    /\ calls[1].stream = "flowing" /\ calls[2].stream = "flowing"
    /\ Len(calls[1].rows) = 1 /\ calls[1].saves = <<"pending">>
    /\ Len(calls[2].rows) = 1 /\ calls[2].saves = <<>>
    /\ cells[Scope(1)].numberoffailedrecords = 0
    /\ cells[Scope(2)].numberoffailedrecords = 1

=============================================================================
